---- MODULE Spec2Model ----
(***************************************************************************)
(* Model of the `suffix!` procedural macro of bisync_suffix_macro          *)
(* (src/src/lib.rs): one macro expansion, from the argument token stream   *)
(* to the blocks the build configuration keeps.                            *)
(*                                                                         *)
(* Text is a sequence of one-character strings, so that concatenation and  *)
(* identifier validity are computed, not assumed.  The expression language *)
(* is the part of Rust's that the macro's behaviour distinguishes: paths,  *)
(* field accesses, method calls, function calls, `.await`, `?`,            *)
(* parentheses and a binary operator.                                      *)
(***************************************************************************)
EXTENDS Integers, Sequences, FiniteSets, TLC

(***************************************************************************)
(* Bounds of the model.                                                    *)
(***************************************************************************)
\* largest number of nodes of an enumerated input expression
MaxNodes == 4
\* largest length of an enumerated arbitrary argument token sequence
MaxTokens == 4

(***************************************************************************)
(* Text and identifiers.                                                   *)
(***************************************************************************)
\* characters that may start an identifier / continue one
IdentStart == {"a", "b", "c", "d", "e", "f", "i", "l", "m", "n", "o", "r", "s",
               "t", "w", "x", "y", "_"}
IdentContinue == IdentStart \cup {"1"}

\* proc_macro2::Ident as the macro sees it: a raw flag and the name
MkIdent(name) == [raw |-> FALSE, name |-> name]
RawIdent(name) == [raw |-> TRUE, name |-> name]
NoIdent == MkIdent(<<>>)

\* `format!("{}", ident)`: a raw identifier displays with its r# prefix
IdentDisplay(id) == IF id.raw THEN <<"r", "#">> \o id.name ELSE id.name

\* whether `Ident::new(text, span)` accepts the text (it panics otherwise)
IdentNewAccepts(text) ==
    /\ Len(text) > 0
    /\ text[1] \in IdentStart
    /\ \A i \in 1..Len(text) : text[i] \in IdentContinue

IdentNew(text) == MkIdent(text)

AwaitText == <<"a", "w", "a", "i", "t">>

(***************************************************************************)
(* Tokens.                                                                 *)
(***************************************************************************)
LitStrTok(value) == [kind |-> "LitStr", raw |-> FALSE, text |-> value]
IdentTok(id) == [kind |-> "Ident", raw |-> id.raw, text |-> id.name]
Punct(k) == [kind |-> k, raw |-> FALSE, text |-> <<>>]
Comma == Punct("Comma")
Dot == Punct("Dot")
LParen == Punct("LParen")
RParen == Punct("RParen")
Question == Punct("Question")
Plus == Punct("Plus")
AwaitKw == IdentTok(MkIdent(AwaitText))

IsIdentTok(tok) == tok.kind = "Ident" /\ (tok.raw \/ tok.text # AwaitText)
TokIdent(tok) == [raw |-> tok.raw, name |-> tok.text]

(***************************************************************************)
(* Expression trees (syn::Expr).  Every node has the same record shape:    *)
(* its kind, its identifier (path name, field member or method name), its  *)
(* child expressions in source order, and whether its argument list ends   *)
(* with a comma.                                                           *)
(***************************************************************************)
Node(kind, id, kids, trail) ==
    [kind |-> kind, id |-> id, kids |-> kids, trail |-> trail]
NoTree == Node("None", NoIdent, <<>>, FALSE)
ExprPath(id) == Node("Path", id, <<>>, FALSE)
ExprField(base, member) == Node("Field", member, <<base>>, FALSE)
ExprMethodCall(receiver, method, args, trail) ==
    Node("MethodCall", method, <<receiver>> \o args, trail)
ExprCall(func, args, trail) == Node("Call", NoIdent, <<func>> \o args, trail)
ExprAwait(base) == Node("Await", NoIdent, <<base>>, FALSE)
ExprTry(e) == Node("Try", NoIdent, <<e>>, FALSE)
ExprParen(e) == Node("Paren", NoIdent, <<e>>, FALSE)
ExprBinary(left, right) == Node("Binary", NoIdent, <<left, right>>, FALSE)

(***************************************************************************)
(* quote!'s ToTokens on an expression.                                     *)
(***************************************************************************)
RECURSIVE ToTokens(_), ArgsToTokens(_, _, _)

ArgsToTokens(kids, i, trail) ==
    IF i > Len(kids) THEN <<>>
    ELSE ToTokens(kids[i])
         \o (IF i < Len(kids) \/ trail THEN <<Comma>> ELSE <<>>)
         \o ArgsToTokens(kids, i + 1, trail)

ToTokens(e) ==
    CASE e.kind = "Path" -> <<IdentTok(e.id)>>
      [] e.kind = "Field" -> ToTokens(e.kids[1]) \o <<Dot, IdentTok(e.id)>>
      [] e.kind = "MethodCall" ->
            ToTokens(e.kids[1]) \o <<Dot, IdentTok(e.id), LParen>>
            \o ArgsToTokens(e.kids, 2, e.trail) \o <<RParen>>
      [] e.kind = "Call" ->
            ToTokens(e.kids[1]) \o <<LParen>>
            \o ArgsToTokens(e.kids, 2, e.trail) \o <<RParen>>
      [] e.kind = "Await" -> ToTokens(e.kids[1]) \o <<Dot, AwaitKw>>
      [] e.kind = "Try" -> ToTokens(e.kids[1]) \o <<Question>>
      [] e.kind = "Paren" -> <<LParen>> \o ToTokens(e.kids[1]) \o <<RParen>>
      [] e.kind = "Binary" ->
            ToTokens(e.kids[1]) \o <<Plus>> \o ToTokens(e.kids[2])
      [] OTHER -> <<>>

(***************************************************************************)
(* syn's expression parser on the token kinds above.  Each operator        *)
(* returns [ok, tree, next]: whether it parsed, what, and the index of     *)
(* the first token it did not consume.                                     *)
(***************************************************************************)
ParseFail == [ok |-> FALSE, tree |-> NoTree, args |-> <<>>, trail |-> FALSE,
              next |-> 0]
Parsed(tree, next) == [ok |-> TRUE, tree |-> tree, args |-> <<>>,
                       trail |-> FALSE, next |-> next]
ParsedArgs(args, trail, next) == [ok |-> TRUE, tree |-> NoTree, args |-> args,
                                  trail |-> trail, next |-> next]

Has(toks, i, tok) == i <= Len(toks) /\ toks[i] = tok

RECURSIVE ParseExprAt(_, _), ParseBinaryLoop(_, _, _), ParseUnary(_, _),
          ParsePostfixLoop(_, _, _), ParseArgs(_, _, _)

\* the comma-separated arguments up to the closing parenthesis
ParseArgs(toks, i, acc) ==
    IF Has(toks, i, RParen) THEN ParsedArgs(acc, FALSE, i + 1)
    ELSE LET a == ParseExprAt(toks, i)
         IN  IF ~a.ok THEN ParseFail
             ELSE IF Has(toks, a.next, RParen)
                  THEN ParsedArgs(Append(acc, a.tree), FALSE, a.next + 1)
             ELSE IF Has(toks, a.next, Comma)
                  THEN IF Has(toks, a.next + 1, RParen)
                       THEN ParsedArgs(Append(acc, a.tree), TRUE, a.next + 2)
                       ELSE ParseArgs(toks, a.next + 1, Append(acc, a.tree))
             ELSE ParseFail

\* the postfix operators that follow an operand: .await .m(..) .f (..) ?
ParsePostfixLoop(toks, e, i) ==
    IF Has(toks, i, Dot)
    THEN IF Has(toks, i + 1, AwaitKw)
         THEN ParsePostfixLoop(toks, ExprAwait(e), i + 2)
         ELSE IF i + 1 <= Len(toks) /\ IsIdentTok(toks[i + 1])
         THEN IF Has(toks, i + 2, LParen)
              THEN LET a == ParseArgs(toks, i + 3, <<>>)
                   IN  IF ~a.ok THEN ParseFail
                       ELSE ParsePostfixLoop(toks,
                              ExprMethodCall(e, TokIdent(toks[i + 1]), a.args,
                                             a.trail),
                              a.next)
              ELSE ParsePostfixLoop(toks, ExprField(e, TokIdent(toks[i + 1])),
                                    i + 2)
         ELSE ParseFail
    ELSE IF Has(toks, i, LParen)
    THEN LET a == ParseArgs(toks, i + 1, <<>>)
         IN  IF ~a.ok THEN ParseFail
             ELSE ParsePostfixLoop(toks, ExprCall(e, a.args, a.trail), a.next)
    ELSE IF Has(toks, i, Question)
    THEN ParsePostfixLoop(toks, ExprTry(e), i + 1)
    ELSE Parsed(e, i)

\* an operand (a path or a parenthesised expression) with its postfix operators
ParseUnary(toks, i) ==
    IF i > Len(toks) THEN ParseFail
    ELSE IF IsIdentTok(toks[i])
    THEN ParsePostfixLoop(toks, ExprPath(TokIdent(toks[i])), i + 1)
    ELSE IF toks[i] = LParen
    THEN LET inner == ParseExprAt(toks, i + 1)
         IN  IF inner.ok /\ Has(toks, inner.next, RParen)
             THEN ParsePostfixLoop(toks, ExprParen(inner.tree), inner.next + 1)
             ELSE ParseFail
    ELSE ParseFail

\* further operands of a left-associative binary operator
ParseBinaryLoop(toks, left, i) ==
    IF Has(toks, i, Plus)
    THEN LET r == ParseUnary(toks, i + 1)
         IN  IF ~r.ok THEN ParseFail
             ELSE ParseBinaryLoop(toks, ExprBinary(left, r.tree), r.next)
    ELSE Parsed(left, i)

ParseExprAt(toks, i) ==
    LET l == ParseUnary(toks, i)
    IN  IF ~l.ok THEN ParseFail ELSE ParseBinaryLoop(toks, l.tree, l.next)

(***************************************************************************)
(* The inputs of an expansion: the argument token streams the macro can be *)
(* called with.                                                            *)
(***************************************************************************)
PathNames == {MkIdent(<<"a">>)}
FieldNames == {MkIdent(<<"f">>)}
MethodNames == {MkIdent(<<"m">>), RawIdent(<<"m">>)}
\* an empty suffix, a suffix of identifier characters, one with another character
Suffixes == {<<>>, <<"_", "x">>, <<"-">>}

RECURSIVE PostfixOfSize(_), ExprOfSize(_), ArgsOfSize(_)

\* argument lists whose expressions have n nodes in all
ArgsOfSize(n) ==
    IF n = 0 THEN {<<>>}
    ELSE UNION {{<<e>> \o rest : e \in ExprOfSize(k), rest \in ArgsOfSize(n - k)}
                : k \in 1..n}

Trails(n) == IF n = 0 THEN {FALSE} ELSE BOOLEAN

\* operands with postfix operators, of n nodes (a called field access is
\* written (a.f)(), so a call's function is never a bare field access)
PostfixOfSize(n) ==
    IF n = 1 THEN {ExprPath(id) : id \in PathNames}
    ELSE {ExprField(b, f) : b \in PostfixOfSize(n - 1), f \in FieldNames}
         \cup {ExprAwait(b) : b \in PostfixOfSize(n - 1)}
         \cup {ExprTry(b) : b \in PostfixOfSize(n - 1)}
         \cup {ExprParen(e) : e \in ExprOfSize(n - 1)}
         \cup UNION {{ExprMethodCall(r, m, a, t) :
                         r \in PostfixOfSize(k), m \in MethodNames,
                         a \in ArgsOfSize(n - 1 - k), t \in Trails(n - 1 - k)}
                     : k \in 1..(n - 1)}
         \cup UNION {{ExprCall(f, a, t) :
                         f \in {c \in PostfixOfSize(k) : c.kind # "Field"},
                         a \in ArgsOfSize(n - 1 - k), t \in Trails(n - 1 - k)}
                     : k \in 1..(n - 1)}

\* expressions of n nodes, as the parser builds them (binary operators
\* associate to the left)
ExprOfSize(n) ==
    PostfixOfSize(n)
    \cup UNION {{ExprBinary(l, r) : l \in ExprOfSize(k),
                                    r \in PostfixOfSize(n - 1 - k)}
                : k \in 1..(n - 2)}

Exprs == UNION {ExprOfSize(n) : n \in 1..MaxNodes}

MacroArgs(s, e) == <<LitStrTok(s), Comma>> \o ToTokens(e)

\* well-formed invocations over the enumerated expressions
ExprInputs == {MacroArgs(s, e) : s \in Suffixes, e \in Exprs}

\* the token kinds, and every sequence of n of them
TokenAlphabet == {LitStrTok(<<"_", "x">>), Comma, IdentTok(MkIdent(<<"a">>)),
                  AwaitKw, Dot, LParen, RParen, Question, Plus}

TokenSeqs(n) == [1..n -> TokenAlphabet]

TokenInputs == UNION {TokenSeqs(n) : n \in 0..MaxTokens}

\* the invocations the documentation and the tests of the behaviour name
Id(name) == ExprPath(MkIdent(name))
Call0(name) == ExprCall(Id(name), <<>>, FALSE)
Method0(recv, name) == ExprMethodCall(recv, MkIdent(name), <<>>, FALSE)
Method1(recv, name, arg) == ExprMethodCall(recv, MkIdent(name), <<arg>>, FALSE)
SuffixX == <<"_", "x">>
SuffixAsync == <<"_", "a", "s", "y", "n", "c">>
NameRead == <<"r", "e", "a", "d">>
NameReadAsync == <<"r", "e", "a", "d", "_", "a", "s", "y", "n", "c">>

\* a().await + b().await
SumOfAwaitedCalls ==
    ExprBinary(ExprAwait(Call0(<<"a">>)), ExprAwait(Call0(<<"b">>)))
\* x.a().await + y.b().await
SumOfAwaitedMethods ==
    ExprBinary(ExprAwait(Method0(Id(<<"x">>), <<"a">>)),
               ExprAwait(Method0(Id(<<"y">>), <<"b">>)))
\* self.sensor.read().await?
SensorReceiver ==
    ExprField(Id(<<"s", "e", "l", "f">>),
              MkIdent(<<"s", "e", "n", "s", "o", "r">>))
SensorRead == ExprTry(ExprAwait(Method0(SensorReceiver, NameRead)))
\* a.m().await.n().await : a qualifying await in the receiver of another
NestedInReceiver ==
    ExprAwait(Method0(ExprAwait(Method0(Id(<<"a">>), <<"m">>)), <<"n">>))
\* a.m(b.n().await).await : a qualifying await in the arguments of another
NestedInArgs ==
    ExprAwait(Method1(Id(<<"a">>), <<"m">>,
                      ExprAwait(Method0(Id(<<"b">>), <<"n">>))))
\* f(b.n().await).await : a qualifying await in an awaited function call
NestedInCall ==
    ExprAwait(ExprCall(Id(<<"f">>),
                       <<ExprAwait(Method0(Id(<<"b">>), <<"n">>))>>, FALSE))
\* a.r#m().await : an awaited method with a raw name
RawMethod == ExprAwait(ExprMethodCall(Id(<<"a">>), RawIdent(<<"m">>), <<>>,
                                      FALSE))

ScenarioExprs == {SumOfAwaitedCalls, SumOfAwaitedMethods, SensorRead,
                  NestedInReceiver, NestedInArgs, NestedInCall, RawMethod}
ScenarioSuffixes == Suffixes \cup {SuffixAsync}

\* suffix("_async") ; suffix(foo, bar().await) ; a missing or wrong separator ;
\* tokens after the expression
MalformedScenarios ==
    { <<LitStrTok(SuffixAsync)>>,
      <<IdentTok(MkIdent(<<"f", "o", "o">>)), Comma>>
          \o ToTokens(ExprAwait(Call0(<<"b", "a", "r">>))),
      <<LitStrTok(SuffixX)>> \o ToTokens(SensorRead),
      <<LitStrTok(SuffixX), Dot>> \o ToTokens(SensorRead),
      MacroArgs(SuffixX, SensorRead) \o <<IdentTok(MkIdent(<<"a">>))>>,
      MacroArgs(SuffixX, SensorRead) \o <<Comma>>,
      MacroArgs(SuffixX, SensorRead) \o <<RParen>> }

ScenarioInputs ==
    {MacroArgs(s, e) : s \in ScenarioSuffixes, e \in ScenarioExprs}
    \cup MalformedScenarios

Inputs == ExprInputs \cup TokenInputs \cup ScenarioInputs

(***************************************************************************)
(* SuffixMacroInput::parse and parse_macro_input!.                         *)
(***************************************************************************)
NoRequest == [suffix_str |-> <<>>, expr |-> NoTree]

\* variant: an empty string literal is refused
SuffixMacroInputParseNonEmpty(toks) ==
    IF ~(1 <= Len(toks) /\ toks[1].kind = "LitStr" /\ toks[1].text # <<>>)
    THEN ParseFail
    ELSE IF ~Has(toks, 2, Comma) THEN ParseFail
    ELSE ParseExprAt(toks, 3)

\* the three fields in order, each `input.parse()?`
SuffixMacroInputParse(toks) ==
    IF ~(1 <= Len(toks) /\ toks[1].kind = "LitStr") THEN ParseFail
    ELSE IF ~Has(toks, 2, Comma) THEN ParseFail
    ELSE ParseExprAt(toks, 3)

\* variant: tokens left after the expression are ignored
ParseMacroInputOkPrefix(toks) == SuffixMacroInputParse(toks).ok

\* syn::parse: the Parse impl must succeed and leave no token unconsumed
ParseMacroInputOk(toks) ==
    LET r == SuffixMacroInputParse(toks)
    IN  r.ok /\ r.next = Len(toks) + 1

ParseMacroInputValue(toks) ==
    [suffix_str |-> toks[1].text, expr |-> SuffixMacroInputParse(toks).tree]

(***************************************************************************)
(* AwaitMethodSuffixer: the VisitMut implementation.                       *)
(***************************************************************************)
\* the outcome of a traversal that Ident::new aborted
Panicked == Node("Panic", NoIdent, <<>>, FALSE)

RECURSIVE VisitExprMut(_, _), VisitKids(_, _, _)

\* variant: only the first child expression is walked
VisitKidsFirstOnly(kids, i, suffix) ==
    IF i > Len(kids) THEN <<>>
    ELSE <<VisitExprMut(kids[i], suffix)>> \o SubSeq(kids, i + 1, Len(kids))

\* syn's generated walk: every child expression, left to right
VisitKids(kids, i, suffix) ==
    IF i > Len(kids) THEN <<>>
    ELSE <<VisitExprMut(kids[i], suffix)>> \o VisitKids(kids, i + 1, suffix)

DefaultVisit(e, suffix) ==
    LET ks == VisitKids(e.kids, 1, suffix)
    IN  IF \E i \in 1..Len(ks) : ks[i] = Panicked THEN Panicked
        ELSE [e EXCEPT !.kids = ks]

\* variant: an awaited field access is renamed as well
IsMethodCallOrField(base) == base.kind \in {"MethodCall", "Field"}

\* if let Expr::MethodCall(method_call) = &mut *expr_await.base
IsMethodCall(base) == base.kind = "MethodCall"

\* variant: a separator is put between the name and the suffix
NewMethodNameStrSeparated(method, suffix) ==
    IdentDisplay(method) \o <<"_">> \o suffix

\* format!("{}{}", original_method_ident, self.suffix)
NewMethodNameStr(method, suffix) == IdentDisplay(method) \o suffix

Renamed(expr_await, suffix) ==
    LET base == expr_await.kids[1]
    IN  [expr_await EXCEPT
           !.kids = <<[base EXCEPT
                         !.id = IdentNew(NewMethodNameStr(base.id, suffix))]>>]

\* variant: a renamed await is not walked further
VisitExprAwaitMutNoDescent(expr_await, suffix) ==
    LET base == expr_await.kids[1]
    IN  IF IsMethodCall(base)
        THEN IF IdentNewAccepts(NewMethodNameStr(base.id, suffix))
             THEN Renamed(expr_await, suffix)
             ELSE Panicked
        ELSE DefaultVisit(expr_await, suffix)

\* variant: an await that is not renamed is not walked further
VisitExprAwaitMutSkipOther(expr_await, suffix) ==
    LET base == expr_await.kids[1]
    IN  IF IsMethodCall(base)
        THEN IF IdentNewAccepts(NewMethodNameStr(base.id, suffix))
             THEN DefaultVisit(Renamed(expr_await, suffix), suffix)
             ELSE Panicked
        ELSE expr_await

VisitExprAwaitMut(expr_await, suffix) ==
    LET base == expr_await.kids[1]
        new_method_name_str == NewMethodNameStr(base.id, suffix)
    IN  IF IsMethodCall(base)
        THEN IF IdentNewAccepts(new_method_name_str)
             THEN DefaultVisit(
                    [expr_await EXCEPT
                        !.kids = <<[base EXCEPT
                                      !.id = IdentNew(new_method_name_str)]>>],
                    suffix)
             ELSE Panicked
        ELSE DefaultVisit(expr_await, suffix)

VisitExprMut(e, suffix) ==
    IF e.kind = "Await" THEN VisitExprAwaitMut(e, suffix)
    ELSE DefaultVisit(e, suffix)

(***************************************************************************)
(* The emitted block and the build's cfg resolution.                       *)
(***************************************************************************)
NoOutput == [kind |-> "none", async_block |-> <<>>, blocking_block |-> <<>>]
CompileError == [kind |-> "compile_error", async_block |-> <<>>,
                 blocking_block |-> <<>>]
QuoteOutput(transformed, original) ==
    [kind |-> "cfg_blocks", async_block |-> ToTokens(transformed),
     blocking_block |-> ToTokens(original)]

Features == {"async", "blocking"}
\* #[cfg(feature = "async")]
CfgAsync(feats) == "async" \in feats
\* variant: the blocking block is kept whenever "blocking" is set
CfgBlockingOnly(feats) == "blocking" \in feats

\* #[cfg(all(feature = "blocking", not(feature = "async")))]
CfgBlocking(feats) == "blocking" \in feats /\ ~("async" \in feats)

Alternative(alt, tokens) == [alt |-> alt, tokens |-> tokens]

(***************************************************************************)
(* One expansion of suffix!(..) as a state machine.                        *)
(***************************************************************************)
VARIABLES pc, input, parsed_input, suffix_value, async_expr_transformed,
          blocking_expr_original, output, features, compiled

vars == <<pc, input, parsed_input, suffix_value, async_expr_transformed,
          blocking_expr_original, output, features, compiled>>

Init ==
    /\ pc = "start"
    /\ input \in Inputs
    /\ parsed_input = NoRequest
    /\ suffix_value = <<>>
    /\ async_expr_transformed = NoTree
    /\ blocking_expr_original = NoTree
    /\ output = NoOutput
    /\ features = {}
    /\ compiled = <<>>

\* let parsed_input = parse_macro_input!(input as SuffixMacroInput);
ParseMacroInput ==
    /\ pc = "start"
    /\ IF ParseMacroInputOk(input)
       THEN /\ parsed_input' = ParseMacroInputValue(input)
            /\ pc' = "parsed"
            /\ UNCHANGED output
       ELSE /\ output' = CompileError
            /\ pc' = "error"
            /\ UNCHANGED parsed_input
    /\ UNCHANGED <<input, suffix_value, async_expr_transformed,
                   blocking_expr_original, features, compiled>>

\* the suffix's value, the clone to transform and the original kept as it is
CloneExpr ==
    /\ pc = "parsed"
    /\ suffix_value' = parsed_input.suffix_str
    /\ async_expr_transformed' = parsed_input.expr
    /\ blocking_expr_original' = parsed_input.expr
    /\ pc' = "cloned"
    /\ UNCHANGED <<input, parsed_input, output, features, compiled>>

\* variant: the traversal runs on the one tree both blocks are emitted from
VisitShared ==
    /\ pc = "cloned"
    /\ LET t == VisitExprMut(async_expr_transformed, suffix_value)
       IN  IF t = Panicked
           THEN /\ pc' = "panicked"
                /\ UNCHANGED <<async_expr_transformed, blocking_expr_original>>
           ELSE /\ pc' = "visited"
                /\ async_expr_transformed' = t
                /\ blocking_expr_original' = t
    /\ UNCHANGED <<input, parsed_input, suffix_value, output, features,
                   compiled>>

\* suffixer.visit_expr_mut(&mut async_expr_transformed);
\* (a panic of Ident::new unwinds out of the macro: no tree is used after it)
Visit ==
    /\ pc = "cloned"
    /\ LET t == VisitExprMut(async_expr_transformed, suffix_value)
       IN  IF t = Panicked
           THEN /\ pc' = "panicked"
                /\ UNCHANGED async_expr_transformed
           ELSE /\ pc' = "visited"
                /\ async_expr_transformed' = t
    /\ UNCHANGED <<input, parsed_input, suffix_value, blocking_expr_original,
                   output, features, compiled>>

\* quote! { { #[cfg(..)] { #async_expr_transformed } #[cfg(..)] { .. } } }
Emit ==
    /\ pc = "visited"
    /\ output' = QuoteOutput(async_expr_transformed, blocking_expr_original)
    /\ pc' = "emitted"
    /\ UNCHANGED <<input, parsed_input, suffix_value, async_expr_transformed,
                   blocking_expr_original, features, compiled>>

\* the build keeps the blocks whose cfg predicate its features satisfy
Compile ==
    /\ pc = "emitted"
    /\ \E feats \in SUBSET Features :
         /\ features' = feats
         /\ compiled' =
              (IF CfgAsync(feats)
               THEN <<Alternative("A", output.async_block)>> ELSE <<>>)
              \o (IF CfgBlocking(feats)
                  THEN <<Alternative("B", output.blocking_block)>> ELSE <<>>)
    /\ pc' = "compiled"
    /\ UNCHANGED <<input, parsed_input, suffix_value, async_expr_transformed,
                   blocking_expr_original, output>>

Next == ParseMacroInput \/ CloneExpr \/ Visit \/ Emit \/ Compile

Spec == Init /\ [][Next]_vars

(***************************************************************************)
(* Vocabulary of the properties: positions in a tree, and the grammar of   *)
(* the expression language stated on token sequences.                      *)
(***************************************************************************)
RECURSIVE Positions(_), At(_, _)

\* the paths (child indexes from the root) of the nodes of e
Positions(e) ==
    {<<>>} \cup UNION {{<<i>> \o p : p \in Positions(e.kids[i])}
                       : i \in 1..Len(e.kids)}

At(e, p) == IF p = <<>> THEN e ELSE At(e.kids[Head(p)], Tail(p))

Parent(p) == SubSeq(p, 1, Len(p) - 1)
IsStrictPrefix(p, q) == Len(p) < Len(q) /\ SubSeq(q, 1, Len(p)) = p

\* the positions of the awaits, and of the method calls an await is applied to
AwaitPositions(e) == {p \in Positions(e) : At(e, p).kind = "Await"}
Qualifying(e) ==
    {p \in Positions(e) : /\ Len(p) > 0
                          /\ At(e, p).kind = "MethodCall"
                          /\ At(e, Parent(p)).kind = "Await"}

\* a node but for its children
Head1(n) == [kind |-> n.kind, id |-> n.id, arity |-> Len(n.kids),
             trail |-> n.trail]

RECURSIVE IsExprToks(_), IsPostfixToks(_), IsArgsToks(_)

IsPostfixToks(t) ==
    LET n == Len(t)
    IN  \/ n = 1 /\ IsIdentTok(t[1])
        \/ n >= 3 /\ t[1] = LParen /\ t[n] = RParen
                  /\ IsExprToks(SubSeq(t, 2, n - 1))
        \/ n >= 3 /\ t[n - 1] = Dot /\ (t[n] = AwaitKw \/ IsIdentTok(t[n]))
                  /\ IsPostfixToks(SubSeq(t, 1, n - 2))
        \/ n >= 2 /\ t[n] = Question /\ IsPostfixToks(SubSeq(t, 1, n - 1))
        \/ n >= 3 /\ t[n] = RParen
                  /\ \E j \in 2..(n - 1) :
                        /\ t[j] = LParen
                        /\ IsArgsToks(SubSeq(t, j + 1, n - 1))
                        /\ IsPostfixToks(SubSeq(t, 1, j - 1))

IsArgsToks(t) ==
    LET n == Len(t)
    IN  \/ n = 0
        \/ IsExprToks(t)
        \/ \E k \in 2..n : /\ t[k] = Comma
                           /\ IsExprToks(SubSeq(t, 1, k - 1))
                           /\ IsArgsToks(SubSeq(t, k + 1, n))

IsExprToks(t) ==
    LET n == Len(t)
    IN  \/ IsPostfixToks(t)
        \/ \E k \in 2..(n - 1) : /\ t[k] = Plus
                                 /\ IsExprToks(SubSeq(t, 1, k - 1))
                                 /\ IsPostfixToks(SubSeq(t, k + 1, n))

\* a string literal, a comma, one expression, nothing else
WellFormed(toks) ==
    /\ Len(toks) >= 3
    /\ toks[1].kind = "LitStr"
    /\ toks[2] = Comma
    /\ IsExprToks(SubSeq(toks, 3, Len(toks)))

Rewritten == pc \in {"visited", "emitted", "compiled"}
Accepted == pc \in {"parsed", "cloned", "visited", "panicked", "emitted",
                    "compiled"}

(***************************************************************************)
(* The claims.                                                             *)
(***************************************************************************)
Original == parsed_input.expr
Transformed == async_expr_transformed
HasArgs(n) == Len(n.kids) > 1

\* C1: the transformed tree has the shape of the original tree and differs
\* from it only in the method name of each method call that an await is
\* applied to, where the name is the original name followed by the suffix;
\* receivers and argument lists keep their structure.
C1_DiffersOnlyAtAwaitedMethodNames ==
    Rewritten =>
      /\ Positions(Transformed) = Positions(Original)
      /\ \A p \in Positions(Original) :
           LET a == At(Original, p)
               b == At(Transformed, p)
           IN  /\ b.kind = a.kind
               /\ Len(b.kids) = Len(a.kids)
               /\ b.trail = a.trail
               /\ b.id = IF p \in Qualifying(Original)
                         THEN MkIdent(a.id.name \o suffix_value)
                         ELSE a.id

\* a rewritten expansion with a non-empty suffix and an awaited method call
\* that has arguments
C1_Witness ==
    /\ Rewritten
    /\ suffix_value = SuffixX
    /\ \E p \in Qualifying(Original) : HasArgs(At(Original, p))

\* C2: when no await is applied to a method call, the transformed tree is the
\* original tree and both alternatives hold the same expression.
C2_NoQualifyingAwaitNoChange ==
    (Rewritten /\ Qualifying(Original) = {}) =>
      /\ Transformed = Original
      /\ pc \in {"emitted", "compiled"} =>
           output.async_block = output.blocking_block

\* an emitted expansion of an awaited field access, with a non-empty suffix
C2_Witness ==
    /\ pc = "emitted"
    /\ suffix_value # <<>>
    /\ Qualifying(Original) = {}
    /\ \E p \in AwaitPositions(Original) :
         At(Original, p).kids[1].kind = "Field"

\* the method name at p carries the suffix one time
SuffixedOnce(p) ==
    LET m == At(Original, p).id.name
        r == At(Transformed, p).id.name
    IN  /\ Len(r) = Len(m) + Len(suffix_value)
        /\ SubSeq(r, 1, Len(m)) = m
        /\ SubSeq(r, Len(m) + 1, Len(r)) = suffix_value

\* C3: when an await over a method call contains further awaits over method
\* calls in its receiver or its arguments, each of them carries the suffix
\* exactly once after the traversal.
C3_NestedAwaitsSuffixedOnce ==
    Rewritten =>
      \A p \in Qualifying(Original) : \A q \in Qualifying(Original) :
        IsStrictPrefix(p, q) => SuffixedOnce(p) /\ SuffixedOnce(q)

\* a rewritten expansion with a qualifying await in the argument list of
\* another qualifying await's method call
C3_Witness ==
    /\ Rewritten
    /\ suffix_value # <<>>
    /\ \E p \in Qualifying(Original) : \E q \in Qualifying(Original) :
         IsStrictPrefix(p, q) /\ q[Len(p) + 1] > 1

\* C4: an await is renamed exactly when its operand is a method call; any
\* other operand (and the function a plain call names) is left as it is,
\* and the awaits over method calls inside it are still renamed.
C4_RenamedIffMethodCall ==
    Rewritten =>
      \A p \in AwaitPositions(Original) :
        LET a == At(Original, p).kids[1]
            b == At(Transformed, p).kids[1]
        IN  IF a.kind = "MethodCall"
            THEN b.id.name = a.id.name \o suffix_value
            ELSE /\ Head1(b) = Head1(a)
                 /\ a.kind = "Call" => Head1(b.kids[1]) = Head1(a.kids[1])
                 /\ \A q \in Qualifying(Original) :
                      IsStrictPrefix(p, q) =>
                        At(Transformed, q).id.name
                          = At(Original, q).id.name \o suffix_value

\* a rewritten expansion with an awaited plain function call whose arguments
\* hold an await over a method call
C4_Witness ==
    /\ Rewritten
    /\ suffix_value # <<>>
    /\ \E p \in AwaitPositions(Original) :
         /\ At(Original, p).kids[1].kind = "Call"
         /\ \E q \in Qualifying(Original) :
              IsStrictPrefix(p \o <<1>>, q) /\ q[Len(p) + 2] > 1

SumInput == MacroArgs(SuffixX, SumOfAwaitedCalls)
SumMethodsInput == MacroArgs(SuffixX, SumOfAwaitedMethods)

\* C5 as stated: for suffix "_x" and a().await + b().await, Alternative A is
\* a_x().await + b_x().await.
C5_AsStated ==
    (pc = "emitted" /\ input = SumInput) =>
      output.async_block
        = ToTokens(ExprBinary(ExprAwait(Call0(<<"a", "_", "x">>)),
                              ExprAwait(Call0(<<"b", "_", "x">>))))

\* C5 as amended: for suffix "_x" and a().await + b().await neither await
\* qualifies (a() and b() are plain function calls) and Alternative A is
\* a().await + b().await; for x.a().await + y.b().await both awaits qualify
\* and Alternative A is x.a_x().await + y.b_x().await.
C5_Amended ==
    /\ (pc = "emitted" /\ input = SumInput) =>
         /\ output.async_block = ToTokens(SumOfAwaitedCalls)
         /\ output.async_block = output.blocking_block
    /\ (pc = "emitted" /\ input = SumMethodsInput) =>
         output.async_block
           = ToTokens(ExprBinary(
                 ExprAwait(Method0(Id(<<"x">>), <<"a", "_", "x">>)),
                 ExprAwait(Method0(Id(<<"y">>), <<"b", "_", "x">>))))

\* the expansion of suffix!("_x", a().await + b().await) has been emitted
C5_Witness ==
    /\ pc = "emitted"
    /\ input = SumInput
    /\ Cardinality(AwaitPositions(Original)) = 2
    /\ Qualifying(Original) = {}

SensorInput == MacroArgs(SuffixAsync, SensorRead)

\* C6: after the rewriter has run the original tree is the tree the parser
\* returned, and Alternative B is the input expression as written; for
\* suffix "_async" and self.sensor.read().await? Alternative A is
\* self.sensor.read_async().await? and Alternative B self.sensor.read().await?.
C6_OriginalUntouched ==
    /\ pc \in {"visited", "panicked", "emitted", "compiled"} =>
         blocking_expr_original = parsed_input.expr
    /\ pc \in {"emitted", "compiled"} =>
         output.blocking_block = SubSeq(input, 3, Len(input))
    /\ (pc = "emitted" /\ input = SensorInput) =>
         /\ output.async_block
              = ToTokens(ExprTry(ExprAwait(
                    Method0(SensorReceiver, NameReadAsync))))
         /\ output.blocking_block = ToTokens(SensorRead)

\* the expansion of suffix!("_async", self.sensor.read().await?) has been
\* emitted, with two different alternatives
C6_Witness ==
    /\ pc = "emitted"
    /\ input = SensorInput
    /\ output.async_block # output.blocking_block

\* C7: with "async" set only Alternative A is compiled, with "blocking" set
\* and "async" not only Alternative B, with neither nothing, and never both.
C7_OneAlternativePerBuild ==
    pc = "compiled" =>
      /\ "async" \in features =>
           compiled = <<Alternative("A", ToTokens(async_expr_transformed))>>
      /\ ("blocking" \in features /\ "async" \notin features) =>
           compiled = <<Alternative("B", ToTokens(blocking_expr_original))>>
      /\ features = {} => compiled = <<>>
      /\ Len(compiled) <= 1

\* a build with both features set, of an expansion whose alternatives differ
C7_Witness ==
    /\ pc = "compiled"
    /\ features = {"async", "blocking"}
    /\ output.async_block # output.blocking_block

\* C8: the parser accepts exactly a string literal, a comma and one complete
\* expression with nothing after it; for any other arguments the expansion
\* is a compile error, the rewriter does not run and no alternative is
\* emitted.
C8_AcceptsExactlyWellFormed ==
    /\ pc # "start" => (pc = "error" <=> ~WellFormed(input))
    /\ pc = "error" =>
         /\ output = CompileError
         /\ parsed_input = NoRequest
         /\ async_expr_transformed = NoTree
         /\ blocking_expr_original = NoTree
         /\ compiled = <<>>
         /\ ~ENABLED Next

\* a refused invocation that is a well-formed one followed by one more token
C8_Witness ==
    /\ pc = "error"
    /\ Len(input) > 3
    /\ WellFormed(SubSeq(input, 1, Len(input) - 1))

\* C9 as stated: the suffix of a parsed request is never empty.
C9_AsStated == Accepted => parsed_input.suffix_str # <<>>

\* C9 as amended: the suffix of a parsed request is the value of the string
\* literal, empty or not; a well-formed invocation whose literal is "" is
\* accepted and its request reaches the rewriter with the empty suffix.
C9_Amended ==
    /\ Accepted => parsed_input.suffix_str = input[1].text
    /\ pc \in {"cloned", "visited", "panicked", "emitted", "compiled"} =>
         suffix_value = input[1].text
    /\ (pc # "start" /\ WellFormed(input) /\ input[1].text = <<>>) => Accepted

\* the rewriter has run on a request whose string literal is ""
C9_Witness ==
    /\ pc = "visited"
    /\ input[1].text = <<>>
    /\ suffix_value = <<>>
    /\ Qualifying(Original) # {}

\* C10: once parsing has succeeded the expansion does not fail: the rewriter
\* completes for every suffix and every matched method identifier.
C10_RewriterCompletes == pc # "panicked"

====
